---- MODULE Spec2Model ----
(***************************************************************************)
(* scans-validator-api: an actix-web gateway that forwards transaction     *)
(* lookups to the Etherscan / Polygonscan / Bscscan explorers and to a     *)
(* Solana RPC node (src/main.rs).                                          *)
(*                                                                         *)
(* A request is a task polled by the async worker thread it was accepted   *)
(* on.  One action is one poll of the task (from one await point to the    *)
(* next) or one completion of an outbound call.  req[r].holds says that    *)
(* task r holds its worker thread across states: an async poll is atomic   *)
(* and never leaves the thread held, a synchronous library call made       *)
(* inside a poll holds it until the poll ends.                             *)
(***************************************************************************)
EXTENDS Integers, Sequences, FiniteSets, TLC

\* ---- bounds of the model
MaxRequests == 2
NumWorkers == 2
MaxKeys == 3

Requests == 1..MaxRequests
Workers == 1..NumWorkers

\* ---- program constants
\* balance as f64 / 1e9
LAMPORTS_PER_SOL == 1000000000

\* ---- inputs
\* path values: a base-58 signature of 64 bytes, and a string that is none
ValidSignature == "5VERv8NMvzbJMEkV8xnrLkEaWRtSz9CosKDYjCJjBRnb"
Signatures == {ValidSignature, "not-a-signature"}
EvmHashes == {"0x5c504ed432cb51138bcf09aa5e8a410dd4a1e204ef84bfed1be16dfba1b22060"}
KeyA == "KeyA11111111111111111111111111111"
KeyB == "KeyB11111111111111111111111111111"
KeyStrs == {KeyA, KeyB, "not-a-valid-key"}
RpcUrls == {"https://rpc.example", "not-a-url"}
Lamports == {0, 1, 1500000000, 2000000000}
EnvKeys == {"ETHERSCAN_API_KEY", "POLYGONSCAN_API_KEY", "BSCSCAN_API_KEY"}
\* what an inbound GET asks for: the route and the {tx_hash} segment of the path
Target(path, tx_hash) == [path |-> path, tx_hash |-> tx_hash]
Targets ==
    {Target(p, h) : p \in {"/ethereum", "/polygon", "/bsc"}, h \in EvmHashes}
        \cup {Target("/solana", h) : h \in Signatures}
        \cup {Target("/solana-balances", "")}

RECURSIVE SeqsUpTo(_, _)
SeqsUpTo(S, n) ==
    IF n = 0 THEN {<<>>}
    ELSE LET shorter == SeqsUpTo(S, n - 1)
         IN shorter \cup {Append(s, x) : s \in shorter, x \in S}
KeySeqs == SeqsUpTo(KeyStrs, MaxKeys)

\* ---- serde_json::Value: documents an upstream can answer with, as JSON text
JsonNull == "null"
ExplorerSuccess == "{jsonrpc:2.0,id:1,result:{hash,blockNumber,from,to,value}}"
ExplorerError == "{status:0,message:NOTOK,result:Invalid API Key}"
ExplorerDocs == {ExplorerSuccess, ExplorerError, JsonNull}
SolanaTransaction == "{slot,transaction,meta,blockTime}"

\* Option<Value>
None == <<>>
Some(v) == <<v>>

VARIABLES env, services, req
vars == <<env, services, req>>

\* ---- Result<T, E>
Ok(v) == [ok |-> TRUE, value |-> v, err |-> ""]
Err(e) == [ok |-> FALSE, value |-> "", err |-> e]

\* Display of the error types that reach `e.to_string()`
to_string(e) ==
    CASE e = "reqwest::Request" -> "error sending request for url"
      [] e = "reqwest::Decode" -> "error decoding response body"
      [] e = "ParseSignatureError" -> "failed to decode string to signature"
      [] e = "JoinError" -> "task panicked"
      [] e = "ClientError" -> "RPC request error: transaction not found"
      [] e = "serde_json::Error" -> "serialization error"

\* ---- ApiResponse and its JSON form
ApiResponse(status_code, message, data) ==
    [status_code |-> status_code, message |-> message, data |-> data]

\* Serialize for Option<Value>: None is written as null, Some(v) as v itself
SerializeOption(o) == IF o = None THEN JsonNull ELSE o[1]

NoBody == [shape |-> "empty", status_code |-> 0, message |-> "", data |-> "", items |-> <<>>]
JsonEnvelope(a) ==
    [shape |-> "envelope", status_code |-> a.status_code, message |-> a.message,
     data |-> SerializeOption(a.data), items |-> <<>>]
JsonArray(v) ==
    [shape |-> "array", status_code |-> 0, message |-> "", data |-> "", items |-> v]

HttpResponse(status, body) == [http |-> status, body |-> body]
NoResponse == HttpResponse(0, NoBody)

\* ---- the handlers and their route attributes
ExplorerHandlers == {"get_ethereum", "get_polygon", "get_bsc"}
ScanHandlers == ExplorerHandlers \cup {"get_solana"}
AllHandlers == ScanHandlers \cup {"get_solana_balances"}

RouteOf(h) ==
    CASE h = "get_ethereum" -> "/ethereum"
      [] h = "get_polygon" -> "/polygon"
      [] h = "get_bsc" -> "/bsc"
      [] h = "get_solana" -> "/solana"
      [] h = "get_solana_balances" -> "/solana-balances"

EnvKeyOf(h) ==
    CASE h = "get_ethereum" -> "ETHERSCAN_API_KEY"
      [] h = "get_polygon" -> "POLYGONSCAN_API_KEY"
      [] h = "get_bsc" -> "BSCSCAN_API_KEY"

ChainOf(h) ==
    CASE h = "get_ethereum" -> "Ethereum"
      [] h = "get_polygon" -> "Polygon"
      [] h = "get_bsc" -> "BSC"
      [] h = "get_solana" -> "Solana"

HostOf(h) ==
    CASE h = "get_ethereum" -> "api.etherscan.io"
      [] h = "get_polygon" -> "api.polygonscan.com"
      [] h = "get_bsc" -> "api.bscscan.com"
      [] h = "get_solana" -> "api.mainnet-beta.solana.com"

\* App::new().service(..) of main
MainServices == {"get_ethereum", "get_polygon", "get_bsc", "get_solana"}

\* the service of the app a request path is routed to, "none" when no
\* registered service matches (actix answers 404 itself)
Dispatch(path) ==
    IF \E h \in services : RouteOf(h) = path
    THEN CHOOSE h \in services : RouteOf(h) = path
    ELSE "none"

\* variant of MatchResult: the Ok arm leaves the payload out (data: None)
MatchResultDropsData(h, result) ==
    IF result.ok
    THEN HttpResponse(200, JsonEnvelope(
            ApiResponse(200, ChainOf(h) \o " Transaction found", None)))
    ELSE HttpResponse(500, JsonEnvelope(
            ApiResponse(500, to_string(result.err), None)))

\* variant of MatchResult: the Err arm answers with HttpResponse::Ok()
MatchResultOkOnError(h, result) ==
    IF result.ok
    THEN HttpResponse(200, JsonEnvelope(
            ApiResponse(200, ChainOf(h) \o " Transaction found", Some(result.value))))
    ELSE HttpResponse(200, JsonEnvelope(
            ApiResponse(500, to_string(result.err), None)))

\* the match on the fetcher's result, the same in the four scan handlers
MatchResult(h, result) ==
    IF result.ok
    THEN HttpResponse(200, JsonEnvelope(
            ApiResponse(200, ChainOf(h) \o " Transaction found", Some(result.value))))
    ELSE HttpResponse(500, JsonEnvelope(
            ApiResponse(500, to_string(result.err), None)))

\* ---- a request
IdleRequest ==
    [pc |-> "idle", path |-> "", tx_hash |-> "", worker |-> 0, handler |-> "none",
     holds |-> FALSE, path_taken |-> FALSE, calls |-> <<>>, blocking |-> "none",
     body |-> "", joined |-> "", result |-> Err(""),
     rpc_url |-> "", public_keys |-> <<>>, idx |-> 0, accounts_with_balance |-> <<>>,
     outcomes |-> <<>>, overlapped |-> {}, resp |-> NoResponse, responses |-> 0]

\* the handler returns: the response is written and the task ends
Respond(q, resp) == [q EXCEPT !.pc = "done", !.holds = FALSE, !.resp = resp, !.responses = @ + 1]

\* the fetcher returns `result` to its scan handler, which answers by its match
Return(q, result) == Respond([q EXCEPT !.result = result], MatchResult(q.handler, result))

\* an outbound call, the thread that makes it, and whether the call is a
\* synchronous one that keeps its calling thread until it returns
Call(url, thread, sync) == [url |-> url, thread |-> thread, sync |-> sync]

\* a task is suspended on an outbound call it has issued
AwaitingIO(q) == req[q].pc \in {"await_get", "await_json", "await_join", "in_get_balance"}

\* no task holds the worker thread of request r
ThreadFree(r) == \A q \in Requests : req[q].worker = req[r].worker => ~req[q].holds

TypeOK ==
    /\ env \subseteq EnvKeys
    /\ services \subseteq AllHandlers
    /\ DOMAIN req = Requests
    /\ \A r \in Requests : req[r].worker \in Workers \cup {0}

Init ==
    /\ env \in SUBSET EnvKeys
    /\ services = MainServices
    /\ req = [r \in Requests |-> IdleRequest]

\* an inbound GET is accepted on a worker (requests are numbered in arrival order)
Accept(r) ==
    /\ req[r].pc = "idle"
    /\ \A q \in Requests : q < r => req[q].pc # "idle"
    /\ \E t \in Targets, w \in Workers :
          \* workers are interchangeable: a fresh one is the lowest unused
          /\ \A v \in Workers : v < w => \E q \in Requests : req[q].worker = v
          /\ req' = [req EXCEPT ![r].pc = "accepted", ![r].path = t.path,
                                ![r].tx_hash = t.tx_hash, ![r].worker = w,
                                ![r].overlapped =
                                    {q \in Requests : AwaitingIO(q) /\ req[q].worker = w}]
    /\ UNCHANGED <<env, services>>

\* no service of the app matches the path: actix's default 404, no handler runs
NotFound(r) ==
    /\ req[r].pc = "accepted"
    /\ ThreadFree(r)
    /\ Dispatch(req[r].path) = "none"
    /\ req' = [req EXCEPT ![r] = Respond(req[r], HttpResponse(404, NoBody))]
    /\ UNCHANGED <<env, services>>

\* ---- the explorer routes: get_ethereum, get_polygon, get_bsc

\* the value of a set environment variable
EnvValue(name) == "<" \o name \o ">"

\* format!("https://<host>/api?module=proxy&action=eth_getTransactionByHash&txhash={}&apikey={}")
Url(h, tx_hash, api_key) ==
    "https://" \o HostOf(h) \o "/api?module=proxy&action=eth_getTransactionByHash&txhash="
        \o tx_hash \o "&apikey=" \o api_key

\* bodies an explorer can answer with: the JSON documents, and text that is no JSON
Bodies == ExplorerDocs \cup {"<html>502 Bad Gateway</html>"}

\* Response::json::<Value>()
ParseJson(body) == IF body \in ExplorerDocs THEN Ok(body) ELSE Err("reqwest::Decode")

\* variant of explorer_entry: env::var(..).unwrap_or_default() instead of expect
explorer_entry_default(h, q) ==
    LET api_key == IF EnvKeyOf(h) \in env THEN EnvValue(EnvKeyOf(h)) ELSE ""
    IN [q EXCEPT !.handler = h, !.path_taken = TRUE, !.pc = "await_get",
                 !.calls = Append(@, Call(Url(h, q.tx_hash, api_key), "worker", FALSE))]

\* first poll of an explorer handler: env::var(..).expect(..) panics when the key
\* is unset; otherwise path.into_inner(), the URL is formatted and the GET is sent
explorer_entry(h, q) ==
    IF EnvKeyOf(h) \notin env
    THEN [q EXCEPT !.handler = h, !.pc = "panicked"]
    ELSE [q EXCEPT !.handler = h, !.path_taken = TRUE, !.pc = "await_get",
                   !.calls = Append(@, Call(Url(h, q.tx_hash, EnvValue(EnvKeyOf(h))),
                                            "worker", FALSE))]

\* variant of get_resolved: a failed send is tried once more
get_resolved_retry(q, sent) ==
    IF sent
    THEN [q EXCEPT !.pc = "await_json"]
    ELSE IF Len(q.calls) < 2
         THEN [q EXCEPT !.calls = Append(@, q.calls[1])]
         ELSE Return(q, Err("reqwest::Request"))

\* reqwest::get(&url).await? : a send failure is returned to the handler's match
get_resolved(q, sent) ==
    IF sent
    THEN [q EXCEPT !.pc = "await_json"]
    ELSE Return(q, Err("reqwest::Request"))

\* .json::<Value>().await? ; Ok(resp), then the handler's match
json_resolved(q, body) == Return([q EXCEPT !.body = body], ParseJson(body))

ExplorerStart(r, h) ==
    /\ req[r].pc = "accepted"
    /\ ThreadFree(r)
    /\ Dispatch(req[r].path) = h
    /\ req' = [req EXCEPT ![r] = explorer_entry(h, req[r])]
    /\ UNCHANGED <<env, services>>

get_ethereum(r) == ExplorerStart(r, "get_ethereum")
get_polygon(r) == ExplorerStart(r, "get_polygon")
get_bsc(r) == ExplorerStart(r, "get_bsc")

\* the GET completes (headers received) or fails
get_transaction_sent(r) ==
    /\ req[r].pc = "await_get"
    /\ ThreadFree(r)
    /\ \E sent \in BOOLEAN : req' = [req EXCEPT ![r] = get_resolved(req[r], sent)]
    /\ UNCHANGED <<env, services>>

\* the body has arrived
get_transaction_body(r) ==
    /\ req[r].pc = "await_json"
    /\ ThreadFree(r)
    /\ \E body \in Bodies : req' = [req EXCEPT ![r] = json_resolved(req[r], body)]
    /\ UNCHANGED <<env, services>>

\* ---- the Solana transaction route: get_solana, get_solana_transaction

\* Signature::from_str
Signature_from_str(s) == IF s = ValidSignature THEN Ok(s) ELSE Err("ParseSignatureError")

\* variant of solana_entry: the RPC task is spawned on the raw string and the
\* signature is parsed inside the closure
solana_entry_spawn_first(q) ==
    [q EXCEPT !.handler = "get_solana", !.path_taken = TRUE, !.pc = "await_join",
              !.blocking = "spawned"]

\* variant of solana_entry: client.get_transaction is called in the handler's
\* own poll, without spawn_blocking
solana_entry_inline(q) ==
    LET h == "get_solana"
        signature == Signature_from_str(q.tx_hash)
        q1 == [q EXCEPT !.handler = h, !.path_taken = TRUE]
    IN IF ~signature.ok
       THEN Return(q1, signature)
       ELSE [q1 EXCEPT !.pc = "await_join", !.blocking = "running", !.holds = TRUE,
                       !.calls = Append(@, Call("https://api.mainnet-beta.solana.com",
                                                "worker", TRUE))]

\* first poll: RpcClient::new (no I/O), the signature is parsed, and the closure
\* calling client.get_transaction is handed to the blocking pool
solana_entry(q) ==
    LET h == "get_solana"
        signature == Signature_from_str(q.tx_hash)
        q1 == [q EXCEPT !.handler = h, !.path_taken = TRUE]
    IN IF ~signature.ok
       THEN Return(q1, signature)
       ELSE [q1 EXCEPT !.pc = "await_join", !.blocking = "spawned"]

\* a thread of the blocking pool starts the closure: the getTransaction RPC call
blocking_started(q) ==
    [q EXCEPT !.blocking = "running",
              !.calls = Append(@, Call("https://api.mainnet-beta.solana.com", "blocking", TRUE))]

\* the closure returns (Ok or a ClientError) or panics (a JoinError for the awaiter)
BlockingOutcomes == {"Ok", "ClientError", "JoinError"}
blocking_finished(q, outcome) == [q EXCEPT !.blocking = "finished", !.joined = outcome]

\* .await?? then serde_json::to_value(transaction)?, then the handler's match
solana_joined(q, serialized) ==
    LET result == IF q.joined # "Ok" THEN Err(q.joined)
                  ELSE IF serialized THEN Ok(SolanaTransaction)
                  ELSE Err("serde_json::Error")
    IN Return(q, result)

get_solana(r) ==
    /\ req[r].pc = "accepted"
    /\ ThreadFree(r)
    /\ Dispatch(req[r].path) = "get_solana"
    /\ req' = [req EXCEPT ![r] = solana_entry(req[r])]
    /\ UNCHANGED <<env, services>>

spawn_blocking_run(r) ==
    /\ req[r].blocking = "spawned"
    /\ req' = [req EXCEPT ![r] = blocking_started(req[r])]
    /\ UNCHANGED <<env, services>>

spawn_blocking_return(r) ==
    /\ req[r].blocking = "running"
    /\ \E outcome \in BlockingOutcomes :
          req' = [req EXCEPT ![r] = blocking_finished(req[r], outcome)]
    /\ UNCHANGED <<env, services>>

get_solana_transaction_joined(r) ==
    /\ req[r].pc = "await_join"
    /\ req[r].blocking = "finished"
    /\ ThreadFree(r)
    /\ \E serialized \in BOOLEAN :
          req' = [req EXCEPT ![r] = solana_joined(req[r], serialized)]
    /\ UNCHANGED <<env, services>>

\* ---- the balance handler: get_solana_balances

\* Pubkey::from_str
Pubkey_from_str(s) == IF s \in {KeyA, KeyB} THEN Ok(s) ELSE Err("ParsePubkeyError")

\* the answer of one getBalance call
RpcOk(lamports) == [ok |-> TRUE, balance |-> lamports]
RpcErr == [ok |-> FALSE, balance |-> 0]
BalanceResults(rpc_url) ==
    IF rpc_url = "not-a-url" THEN {RpcErr} ELSE {RpcErr} \cup {RpcOk(l) : l \in Lamports}

\* the decimal digits of a fraction of nine places, without its trailing zeros
RECURSIVE PadLeft(_)
PadLeft(digits) == IF Len(digits) >= 9 THEN digits ELSE PadLeft("0" \o digits)
RECURSIVE StripZeros(_)
StripZeros(digits) ==
    IF Len(digits) > 0 /\ SubSeq(digits, Len(digits), Len(digits)) = "0"
    THEN StripZeros(SubSeq(digits, 1, Len(digits) - 1))
    ELSE digits

\* Display of `balance as f64 / 1e9`: the shortest decimal that reads back as the
\* same f64, without exponent and without ".0" (exact below 2^53 lamports)
sol_balance(balance) ==
    LET whole == balance \div LAMPORTS_PER_SOL
        frac == balance % LAMPORTS_PER_SOL
    IN IF frac = 0 THEN ToString(whole)
       ELSE ToString(whole) \o "." \o StripZeros(PadLeft(ToString(frac)))

\* format!("{}: {} SOL", public_key_str, sol_balance)
FormatAccount(public_key_str, balance) ==
    public_key_str \o ": " \o sol_balance(balance) \o " SOL"

\* what happened to one key of the list
Outcome(parsed, ok, balance) == [parsed |-> parsed, ok |-> ok, balance |-> balance]

\* the handler is entered: both queries are extracted; nothing in the handler
\* awaits, so the whole handler is one poll and keeps the worker thread
balances_entry(q, rpc_url, public_keys) ==
    [q EXCEPT !.handler = "get_solana_balances", !.holds = TRUE, !.rpc_url = rpc_url,
              !.public_keys = public_keys, !.idx = 1, !.accounts_with_balance = <<>>,
              !.pc = "loop"]

\* one iteration of the for loop up to the balance call: a key that does not
\* parse is skipped, for a parsed key client.get_balance is called
balances_next(q) ==
    IF ~Pubkey_from_str(q.public_keys[q.idx]).ok
    THEN [q EXCEPT !.idx = @ + 1, !.outcomes = Append(@, Outcome(FALSE, FALSE, 0))]
    ELSE [q EXCEPT !.pc = "in_get_balance",
                   !.calls = Append(@, Call(q.rpc_url, "worker", TRUE))]

\* variant of balance_returned: the test is balance >= 0
balance_returned_keeps_zero(q, result) ==
    LET q1 == [q EXCEPT !.pc = "loop", !.idx = @ + 1,
                        !.outcomes = Append(@, Outcome(TRUE, result.ok, result.balance))]
    IN IF result.ok /\ result.balance >= 0
       THEN [q1 EXCEPT !.accounts_with_balance =
                          Append(@, FormatAccount(q.public_keys[q.idx], result.balance))]
       ELSE q1

\* client.get_balance returns: an Err is skipped, a balance > 0 is pushed
balance_returned(q, result) ==
    LET q1 == [q EXCEPT !.pc = "loop", !.idx = @ + 1,
                        !.outcomes = Append(@, Outcome(TRUE, result.ok, result.balance))]
    IN IF result.ok /\ result.balance > 0
       THEN [q1 EXCEPT !.accounts_with_balance =
                          Append(@, FormatAccount(q.public_keys[q.idx], result.balance))]
       ELSE q1

\* HttpResponse::Ok().json(accounts_with_balance)
balances_response(q) == Respond(q, HttpResponse(200, JsonArray(q.accounts_with_balance)))

get_solana_balances(r, queries) ==
    /\ req[r].pc = "accepted"
    /\ ThreadFree(r)
    /\ Dispatch(req[r].path) = "get_solana_balances"
    /\ \E rpc_url \in RpcUrls, public_keys \in queries :
          req' = [req EXCEPT ![r] = balances_entry(req[r], rpc_url, public_keys)]
    /\ UNCHANGED <<env, services>>

get_solana_balances_next(r) ==
    /\ req[r].pc = "loop"
    /\ req[r].idx <= Len(req[r].public_keys)
    /\ req' = [req EXCEPT ![r] = balances_next(req[r])]
    /\ UNCHANGED <<env, services>>

get_balance_return(r) ==
    /\ req[r].pc = "in_get_balance"
    /\ \E result \in BalanceResults(req[r].rpc_url) :
          req' = [req EXCEPT ![r] = balance_returned(req[r], result)]
    /\ UNCHANGED <<env, services>>

get_solana_balances_respond(r) ==
    /\ req[r].pc = "loop"
    /\ req[r].idx > Len(req[r].public_keys)
    /\ req' = [req EXCEPT ![r] = balances_response(req[r])]
    /\ UNCHANGED <<env, services>>

Next ==
    \E r \in Requests :
        \/ Accept(r)
        \/ NotFound(r)
        \/ get_ethereum(r)
        \/ get_polygon(r)
        \/ get_bsc(r)
        \/ get_transaction_sent(r)
        \/ get_transaction_body(r)
        \/ get_solana(r)
        \/ spawn_blocking_run(r)
        \/ spawn_blocking_return(r)
        \/ get_solana_transaction_joined(r)

Spec == Init /\ [][Next]_vars

\* ---- the app with get_solana_balances mounted as its #[get] attribute
\* declares: concurrent requests, key lists of at most one key
MountedQueries == {ks \in KeySeqs : Len(ks) <= 1}

InitMounted ==
    /\ env \in SUBSET EnvKeys
    /\ services = AllHandlers
    /\ req = [r \in Requests |-> IdleRequest]

NextMounted ==
    \E r \in Requests :
        \/ Accept(r)
        \/ get_ethereum(r)
        \/ get_polygon(r)
        \/ get_bsc(r)
        \/ get_transaction_sent(r)
        \/ get_transaction_body(r)
        \/ get_solana(r)
        \/ spawn_blocking_run(r)
        \/ spawn_blocking_return(r)
        \/ get_solana_transaction_joined(r)
        \/ get_solana_balances(r, MountedQueries)
        \/ get_solana_balances_next(r)
        \/ get_balance_return(r)
        \/ get_solana_balances_respond(r)

SpecMounted == InitMounted /\ [][NextMounted]_vars

\* ---- the balance handler alone, on every key list of the bound: request 1
\* has been accepted on /solana-balances and routed to the handler
InitBalances ==
    /\ env = EnvKeys
    /\ services = {"get_solana_balances"}
    /\ req = [r \in Requests |->
                IF r = 1
                THEN [IdleRequest EXCEPT !.pc = "accepted", !.path = "/solana-balances",
                                         !.worker = 1]
                ELSE IdleRequest]

NextBalances ==
    \E r \in Requests :
        \/ get_solana_balances(r, KeySeqs)
        \/ get_solana_balances_next(r)
        \/ get_balance_return(r)
        \/ get_solana_balances_respond(r)

SpecBalances == InitBalances /\ [][NextBalances]_vars

\* ======================= the claims =======================

Done(r) == req[r].pc = "done"
Ended(r) == req[r].pc \in {"done", "panicked"}
ScanPaths == {"/ethereum", "/polygon", "/bsc", "/solana"}
ExplorerPaths == {"/ethereum", "/polygon", "/bsc"}

\* the success message each route is to answer with
FoundMessage(path) ==
    CASE path = "/ethereum" -> "Ethereum Transaction found"
      [] path = "/polygon" -> "Polygon Transaction found"
      [] path = "/bsc" -> "BSC Transaction found"
      [] path = "/solana" -> "Solana Transaction found"

\* C1: on /ethereum, /polygon and /bsc, whenever the explorer answered with a
\* JSON document P (success shape, error shape or any other), the request ends
\* with HTTP 200 and the envelope {200, "<Chain> Transaction found", P}, the
\* chain being the one of the route called and data being P itself.
C1_ExplorerPassThrough ==
    \A r \in Requests :
        (req[r].path \in ExplorerPaths /\ Done(r) /\ req[r].body \in ExplorerDocs)
        => /\ req[r].resp.http = 200
           /\ req[r].resp.body.shape = "envelope"
           /\ req[r].resp.body.status_code = 200
           /\ req[r].resp.body.message = FoundMessage(req[r].path)
           /\ req[r].resp.body.data = req[r].body

\* the explorer's error document has been passed through as data of a 200
C1_Witness ==
    \E r \in Requests :
        /\ req[r].path = "/bsc" /\ Done(r) /\ req[r].body = ExplorerError
        /\ req[r].resp.http = 200 /\ req[r].resp.body.data = ExplorerError

\* a failed fetch is answered 500 with the error envelope
FailureEnvelope(r) ==
    (Done(r) /\ ~req[r].result.ok)
    => /\ req[r].resp.http = 500
       /\ req[r].resp.body.shape = "envelope"
       /\ req[r].resp.body.status_code = 500
       /\ req[r].resp.body.message # ""
       /\ req[r].resp.body.message = to_string(req[r].result.err)
       /\ req[r].resp.body.data = JsonNull

\* C2 as stated: on the four scan routes a failed fetch is answered HTTP 500
\* with {500, <non-empty message>, null}; in every response data is null
\* exactly when the status is 500, and status_code equals the HTTP status.
C2_NullExactlyOn500 ==
    \A r \in Requests :
        (req[r].path \in ScanPaths /\ Done(r))
        => /\ FailureEnvelope(r)
           /\ req[r].resp.body.status_code = req[r].resp.http
           /\ (req[r].resp.body.data = JsonNull <=> req[r].resp.http = 500)

\* C2 amended: a failed fetch is answered HTTP 500 with {500, <non-empty
\* message>, null}; status_code equals the HTTP status; data is null in every
\* 500 response, and in a 200 response data is the fetched document, so it is
\* null there only when the upstream document is itself the JSON value null.
C2_ErrorEnvelope ==
    \A r \in Requests :
        (req[r].path \in ScanPaths /\ Done(r))
        => /\ FailureEnvelope(r)
           /\ req[r].resp.http \in {200, 500}
           /\ req[r].resp.body.status_code = req[r].resp.http
           /\ (req[r].resp.http = 500 => ~req[r].result.ok /\ req[r].resp.body.data = JsonNull)
           /\ (req[r].resp.http = 200 =>
                 /\ req[r].result.ok
                 /\ req[r].resp.body.data = req[r].result.value
                 /\ (req[r].resp.body.data = JsonNull => req[r].body = JsonNull))

\* an RPC error of the Solana node has been answered 500 with a null data
C2_Witness ==
    \E r \in Requests :
        /\ req[r].path = "/solana" /\ Done(r) /\ req[r].joined = "ClientError"
        /\ req[r].resp.http = 500 /\ req[r].resp.body.data = JsonNull
        /\ req[r].resp.body.message # ""

\* C3: a /solana request whose path value is no signature ends with HTTP 500
\* and the parse-failure message, and at no time of its life has an RPC call
\* been made or a blocking task been spawned for it.
C3_BadSignatureNoRpc ==
    \A r \in Requests :
        (req[r].path = "/solana" /\ req[r].tx_hash # ValidSignature)
        => /\ req[r].calls = <<>>
           /\ req[r].blocking = "none"
           /\ req[r].pc \in {"accepted", "done"}
           /\ Done(r) => /\ req[r].resp.http = 500
                         /\ req[r].resp.body.status_code = 500
                         /\ req[r].resp.body.message = "failed to decode string to signature"
                         /\ req[r].resp.body.data = JsonNull

C3_Witness ==
    \E r \in Requests :
        /\ req[r].path = "/solana" /\ req[r].tx_hash = "not-a-signature"
        /\ Done(r) /\ req[r].resp.http = 500 /\ req[r].calls = <<>>

\* ---- the balance handler

\* the decimal text of the amounts of Lamports, in SOL
AmountText(lamports) ==
    CASE lamports = 1 -> "0.000000001"
      [] lamports = 1500000000 -> "1.5"
      [] lamports = 2000000000 -> "2"

\* key i of the list parsed, its balance call succeeded and the balance is > 0
Kept(q, i) == q.outcomes[i].parsed /\ q.outcomes[i].ok /\ q.outcomes[i].balance > 0

\* the first n keys filtered to the kept ones, in input order, each formatted
RECURSIVE Filtered(_, _)
Filtered(q, n) ==
    IF n = 0 THEN <<>>
    ELSE IF Kept(q, n)
         THEN Append(Filtered(q, n - 1),
                     q.public_keys[n] \o ": " \o AmountText(q.outcomes[n].balance) \o " SOL")
         ELSE Filtered(q, n - 1)

\* C4: the result of the balance fetcher is the input key sequence filtered
\* to the keys that parse, whose balance call succeeded and whose balance is
\* > 0, in input order (duplicates kept, nothing in place of a skipped key),
\* each as "<key>: <amount> SOL"; this holds of the list after every key, and
\* the array answered is the list after the last key.
C4_BalancesFiltered ==
    \A r \in Requests :
        req[r].handler = "get_solana_balances"
        => /\ req[r].accounts_with_balance = Filtered(req[r], Len(req[r].outcomes))
           /\ Len(req[r].outcomes) <= Len(req[r].public_keys)
           /\ Done(r) => /\ Len(req[r].outcomes) = Len(req[r].public_keys)
                         /\ req[r].resp.body.items = Filtered(req[r], Len(req[r].public_keys))

\* [keyWith1.5SOL, invalidKey, keyWithZero] has been answered with one entry
C4_Witness ==
    \E r \in Requests :
        /\ Done(r)
        /\ req[r].public_keys = <<KeyA, "not-a-valid-key", KeyB>>
        /\ req[r].outcomes = <<Outcome(TRUE, TRUE, 1500000000), Outcome(FALSE, FALSE, 0),
                               Outcome(TRUE, TRUE, 0)>>
        /\ req[r].resp.body.items = <<"KeyA11111111111111111111111111111: 1.5 SOL">>

\* the handler that carries the route attribute of a path
OwnHandler(path) ==
    CASE path = "/ethereum" -> "get_ethereum"
      [] path = "/polygon" -> "get_polygon"
      [] path = "/bsc" -> "get_bsc"
      [] path = "/solana" -> "get_solana"
      [] path = "/solana-balances" -> "get_solana_balances"

\* C5: a GET on each of the five routes is dispatched to its own handler:
\* once a request has been taken up, the handler that ran is the one of its path.
C5_FiveRoutesDispatched ==
    \A r \in Requests :
        req[r].pc \notin {"idle", "accepted"} => req[r].handler = OwnHandler(req[r].path)

\* C6: every request to /solana-balances is answered HTTP 200 with a bare JSON
\* array of strings, never an error status and never an envelope.
C6_BalancesAlwaysArray ==
    \A r \in Requests :
        (req[r].path = "/solana-balances" /\ Done(r))
        => /\ req[r].resp.http = 200
           /\ req[r].resp.body.shape = "array"

\* ---- concurrency

SameWorker(r, q) == r # q /\ req[r].worker = req[q].worker

\* the getTransaction call of request r is outstanding
RpcOutstanding(r) == req[r].handler = "get_solana" /\ req[r].blocking \in {"spawned", "running"}

\* while the RPC call is outstanding the task is suspended and does not hold
\* its worker thread, and every synchronous call was made by the blocking pool
C7_OffThread ==
    \A r \in Requests :
        req[r].handler = "get_solana"
        => /\ \A i \in 1..Len(req[r].calls) :
                 req[r].calls[i].sync => req[r].calls[i].thread = "blocking"
           /\ RpcOutstanding(r) => (req[r].pc = "await_join" /\ ThreadFree(r))

\* the suspended task leaves its await only when the blocking task has finished
C7_ResumeAfterFinish ==
    \A r \in Requests :
        (req[r].pc = "await_join" /\ req'[r].pc # "await_join") => req[r].blocking = "finished"

\* C7: the getTransaction call of the Solana fetcher runs on the blocking pool
\* and never on the worker thread of its request: while it is outstanding the
\* worker thread is free for other requests, and the request resumes only
\* after the blocking task has finished.
C7_BlockingCallOffThread == []C7_OffThread /\ [][C7_ResumeAfterFinish]_vars

\* a request accepted on the same worker while the RPC call was outstanding
\* has completed, and the RPC call is still running
C7_Witness ==
    \E r, q \in Requests :
        /\ SameWorker(r, q)
        /\ RpcOutstanding(r) /\ req[r].blocking = "running"
        /\ r \in req[q].overlapped
        /\ Done(q) /\ req[q].resp.http = 200

C9_OneCallOneResponse ==
    \A r \in Requests :
        req[r].path \in ScanPaths
        => /\ Len(req[r].calls) <= 1
           /\ Ended(r) => req[r].responses = 1

\* C9 amended: a scan request makes at most one outbound call in its life (no
\* retry; none is outstanding once it has ended); a request whose handler
\* returned has exactly one response, and a request aborted at the
\* configuration read has none.
C9_OneCallNoRetry ==
    \A r \in Requests :
        req[r].path \in ScanPaths
        => /\ Len(req[r].calls) <= 1
           /\ req[r].responses <= 1
           /\ Done(r) => (req[r].responses = 1 /\ req[r].blocking \in {"none", "finished"})
           /\ req[r].pc = "panicked" => (req[r].responses = 0 /\ req[r].calls = <<>>)
           /\ ~Ended(r) => req[r].responses = 0

\* a failed GET has been answered 500 after one call
C9_Witness ==
    \E r \in Requests :
        /\ req[r].path = "/ethereum" /\ Done(r)
        /\ req[r].result = Err("reqwest::Request")
        /\ Len(req[r].calls) = 1 /\ req[r].responses = 1 /\ req[r].resp.http = 500

\* the environment variable a route needs
RequiredKey(path) ==
    CASE path = "/ethereum" -> "ETHERSCAN_API_KEY"
      [] path = "/polygon" -> "POLYGONSCAN_API_KEY"
      [] path = "/bsc" -> "BSCSCAN_API_KEY"

\* C10: a request on /ethereum, /polygon or /bsc whose key is unset is aborted
\* at the configuration read: the path has not been used, no outbound call is
\* made and nothing is answered; the key is read by each request (a request
\* whose key is set is not aborted, whatever the other keys), and a /solana
\* request is never aborted.
C10_AbortAtConfigRead ==
    \A r \in Requests :
        /\ (req[r].path \in ExplorerPaths /\ req[r].pc \notin {"idle", "accepted"})
           => IF RequiredKey(req[r].path) \in env
              THEN req[r].pc # "panicked"
              ELSE /\ req[r].pc = "panicked"
                   /\ ~req[r].path_taken
                   /\ req[r].calls = <<>>
                   /\ req[r].resp = NoResponse
                   /\ req[r].responses = 0
        /\ req[r].path \notin ExplorerPaths => req[r].pc # "panicked"

\* with a key unset, one request has been aborted and another route has
\* answered 200 in the same run
C10_Witness ==
    \E r, q \in Requests :
        /\ req[r].path = "/ethereum" /\ req[r].pc = "panicked"
        /\ "ETHERSCAN_API_KEY" \notin env
        /\ Done(q) /\ req[q].resp.http = 200 /\ r < q
====
